---- MODULE Spec2Model ----
(***************************************************************************)
(* Model of the Ace Stream desktop player's engine supervision:            *)
(*   - EngineManager (electron/main/engine.ts): start / _doStart /         *)
(*     waitForEngine / ensureRunning / stop / getStatus / startPlayback /  *)
(*     getStreamStats / stopPlayback, driven by concurrent IPC calls;      *)
(*   - the IPC entry points of setupIpcHandlers (ipc.ts);                  *)
(*   - the stats-polling / auto-retry effect of AppContent (App.tsx).      *)
(* Every await of the code is a step boundary: one action is the code that *)
(* runs between two awaits on the single-threaded event loop.              *)
(***************************************************************************)
EXTENDS Integers, Sequences, FiniteSets, TLC

\* ---------------------------------------------------------------- bounds
NumCallers == 2
MaxSpawns == 2
MaxSessions == 2
MaxFetches == 2
MaxPending == 2
RetryCap == 7
MaxLag == 1
MaxPids == 4
MaxKillCalls == 2
MaxUrls == 2

Callers == 1..NumCallers
Handles == 1..MaxSpawns
NULL == 0

Platforms == {"win32", "linux", "darwin"}

\* ------------------------------------------------------- program constants
CONTENT_ID_LEN == 40
MAX_RETRIES == 5
RETRY_INTERVALS == <<3000, 5000, 10000, 15000, 30000>>
KB == 1024

HexChars ==
  {"0","1","2","3","4","5","6","7","8","9",
   "a","b","c","d","e","f","A","B","C","D","E","F"}

ALLOWED_API_HOST ==
  <<"h","t","t","p",":","/","/","1","2","7",".","0",".","0",".","1",":","6","8","7","8","/">>

ACESTREAM_PREFIX ==
  <<"a","c","e","s","t","r","e","a","m",":","/","/">>

\* --------------------------------------------------------- IPC argument values
\* A value crossing the IPC boundary: a string (sequence of characters) or
\* something that is not a string.
Str(s) == [t |-> "string", s |-> s]
NotStr(ty) == [t |-> ty, s |-> <<>>]
Nil == NotStr("undefined")

Rep(ch, n) == [i \in 1..n |-> ch]

\* String.prototype.startsWith
StartsWith(s, p) == Len(s) >= Len(p) /\ SubSeq(s, 1, Len(p)) = p

\* CONTENT_ID_REGEX.test(s) for /^[a-fA-F0-9]{40}$/
CONTENT_ID_REGEX_test(s) ==
  Len(s) = CONTENT_ID_LEN /\ \A i \in 1..Len(s) : s[i] \in HexChars

\* a validator that checks the type and the length only
isValidContentId_lengthOnly(v) == v.t = "string" /\ Len(v.s) = CONTENT_ID_LEN

isValidContentId(v) == v.t = "string" /\ CONTENT_ID_REGEX_test(v.s)

\* a validator whose prefix lacks the slash that ends the origin
isValidApiUrl_noSlash(v) ==
  v.t = "string" /\ StartsWith(v.s, SubSeq(ALLOWED_API_HOST, 1, Len(ALLOWED_API_HOST) - 1))

isValidApiUrl(v) == v.t = "string" /\ StartsWith(v.s, ALLOWED_API_HOST)

\* s.replace(pat, '') : removes the first occurrence of pat, if any
IndexOf(s, p) ==
  LET hits == {i \in 1..(Len(s) + 1) : i + Len(p) - 1 <= Len(s)
                                       /\ SubSeq(s, i, i + Len(p) - 1) = p}
  IN IF hits = {} THEN 0 ELSE CHOOSE i \in hits : \A j \in hits : i <= j

ReplaceFirst(s, p) ==
  LET k == IndexOf(s, p)
  IN IF k = 0 THEN s ELSE SubSeq(s, 1, k - 1) \o SubSeq(s, k + Len(p), Len(s))

GoodId == Rep("a", CONTENT_ID_LEN)

ContentIdInputs ==
  { Str(GoodId),
    Str([i \in 1..CONTENT_ID_LEN |-> IF i % 2 = 0 THEN "F" ELSE "9"]),
    Str(Rep("a", CONTENT_ID_LEN - 1)),
    Str(Rep("a", CONTENT_ID_LEN + 1)),
    Str([i \in 1..CONTENT_ID_LEN |-> IF i = CONTENT_ID_LEN THEN "g" ELSE "a"]),
    Str([i \in 1..CONTENT_ID_LEN |-> IF i = 1 THEN "/" ELSE "a"]),
    Str(ACESTREAM_PREFIX \o GoodId),
    Str(<<>>),
    NotStr("number"),
    Nil }

GoodUrl == ALLOWED_API_HOST \o <<"a","c","e","/","s">>

UrlInputs ==
  { Str(GoodUrl),
    Str(ALLOWED_API_HOST),
    Str(SubSeq(ALLOWED_API_HOST, 1, Len(ALLOWED_API_HOST) - 1)),
    Str(SubSeq(ALLOWED_API_HOST, 1, Len(ALLOWED_API_HOST) - 1) \o <<"0","/","s">>),
    Str(SubSeq(ALLOWED_API_HOST, 1, Len(ALLOWED_API_HOST) - 1) \o <<"@","e","v","i","l","/">>),
    Str(<<"h","t","t","p",":","/","/","e","v","i","l","/">>),
    Str(<<" ">> \o GoodUrl),
    Str(<<>>),
    NotStr("object"),
    Nil }

\* ------------------------------------------------ results and exceptions
\* The result of running a piece of code: a returned value or a thrown error.
Ret(v) == [threw |-> FALSE, v |-> v]
Throw(e) == [threw |-> TRUE, v |-> e]

\* Error objects (only the fields the code reads: message, response.data)
JsError(m) == [k |-> "error", message |-> m]
NetErr == [k |-> "neterr", message |-> "Network Error"]
Timeout == [k |-> "timeout", message |-> "timeout exceeded"]
HttpErr(d) == [k |-> "httperr", message |-> "Request failed", data |-> d]
HttpOk(d) == [k |-> "ok", data |-> d]

\* axios.get: resolves with the response or rejects with the error object
AxiosGet(o) == IF o.k = "ok" THEN Ret(o) ELSE Throw(o)

\* Bodies the status endpoint can answer with
VersionData == [result |-> [version |-> "3.1.74", platform |-> "linux"]]
NoVersionData == [result |-> [platform |-> "linux"]]
NoResultData == [error |-> "bad method"]

ProbeFailures == {NetErr, Timeout, HttpErr(NoResultData)}
ProbeAnswers == {HttpOk(VersionData), HttpOk(NoVersionData), HttpOk(NoResultData)}

\* Bodies the manifest endpoint can answer with
ManifestLive ==
  [response |-> [playback_url |-> "u1", stat_url |-> "s1", command_url |-> "c1",
                 event_url |-> "e1", infohash |-> "h1",
                 playback_session_id |-> "id1", is_live |-> 1]]
ManifestVod ==
  [response |-> [playback_url |-> "u2", stat_url |-> "s2", command_url |-> "c2",
                 event_url |-> "e2", infohash |-> "h2",
                 playback_session_id |-> "id2", is_live |-> 0]]
ManifestNoResponse == [error |-> "no response"]
ManifestEngineError == [error |-> "unknown content id"]

ManifestOutcomes ==
  {HttpOk(ManifestLive), HttpOk(ManifestVod), HttpOk(ManifestNoResponse),
   HttpErr(ManifestEngineError), HttpErr([status |-> "500"]), NetErr, Timeout}

\* Bodies a stat_url can answer with (speeds in KB/s)
StatsDl ==
  [response |-> [status |-> "dl", peers |-> 3, speed_down |-> 2, speed_up |-> 1,
                 downloaded |-> 10, uploaded |-> 5, is_live |-> 1]]
StatsSearching ==
  [response |-> [status |-> "dl", peers |-> 0, speed_down |-> 0, speed_up |-> 0,
                 downloaded |-> 0, uploaded |-> 0, is_live |-> 0]]
StatsPartial == [response |-> [status |-> "prebuf"]]
StatsNoResponse == [error |-> "unknown playback session id"]

StatsOutcomes ==
  {HttpOk(StatsDl), HttpOk(StatsSearching), HttpOk(StatsPartial),
   HttpOk(StatsNoResponse), HttpErr(StatsNoResponse), NetErr, Timeout}

StopCmdOutcomes == {HttpOk([response |-> "ok"]), HttpErr(StatsNoResponse), NetErr, Timeout}

\* x?.f || d  for a string field, and for a numeric field with default 0
StrOr(r, f, d) == IF f \in DOMAIN r /\ r[f] # "" THEN r[f] ELSE d
NumOr(r, f) == IF f \in DOMAIN r THEN r[f] ELSE 0
Field(r, f) == IF f \in DOMAIN r THEN r[f] ELSE "undefined"

ErrorStats ==
  [status |-> "error", peers |-> 0, speedDown |-> 0, speedUp |-> 0,
   downloaded |-> 0, uploaded |-> 0, isLive |-> FALSE]

\* a getStatus that takes any answered request for a running engine
getStatus_anyAnswer(o) ==
  IF AxiosGet(o).threw THEN Ret([running |-> FALSE])
  ELSE Ret([running |-> TRUE, version |-> "undefined", platform |-> "undefined"])

\* EngineManager.getStatus, given the outcome of its GET
getStatus(o) ==
  LET r == AxiosGet(o)
      body == IF r.threw THEN r
              ELSE IF "result" \in DOMAIN r.v.data
                   THEN Ret([running |-> TRUE,
                             version |-> Field(r.v.data.result, "version"),
                             platform |-> Field(r.v.data.result, "platform")])
                   ELSE Ret([running |-> FALSE])
  IN IF body.threw THEN Ret([running |-> FALSE]) ELSE body

\* The try block of getStreamStats: the GET and the mapping of its body
getStreamStatsTry(o) ==
  LET r == AxiosGet(o)
      result == IF ~r.threw /\ "response" \in DOMAIN r.v.data
                THEN r.v.data.response ELSE [undefined |-> TRUE]
  IN IF r.threw THEN r
     ELSE Ret([status |-> StrOr(result, "status", "unknown"),
               peers |-> NumOr(result, "peers"),
               speedDown |-> NumOr(result, "speed_down") * KB,
               speedUp |-> NumOr(result, "speed_up") * KB,
               downloaded |-> NumOr(result, "downloaded"),
               uploaded |-> NumOr(result, "uploaded"),
               isLive |-> ("is_live" \in DOMAIN result /\ result.is_live = 1)])

\* a getStreamStats without its catch block
getStreamStats_noCatch(o) == getStreamStatsTry(o)

\* EngineManager.getStreamStats, given the outcome of its GET
getStreamStats(o) ==
  LET body == getStreamStatsTry(o)
  IN IF body.threw THEN Ret(ErrorStats) ELSE body

\* a stopPlayback without its catch block
stopPlayback_noCatch(o) ==
  LET body == AxiosGet(o)
  IN IF body.threw THEN body ELSE Ret("void")

\* EngineManager.stopPlayback, given the outcome of its GET
stopPlayback(o) ==
  LET body == AxiosGet(o)
  IN IF body.threw THEN Ret("void") ELSE Ret("void")

\* contentId.replace('acestream://', '')
cleanId(contentId) == ReplaceFirst(contentId, ACESTREAM_PREFIX)

\* a session object that reports every stream as live
PlaybackSession_alwaysLive(result) ==
  [playbackUrl |-> result.playback_url,
   statUrl |-> result.stat_url,
   commandUrl |-> result.command_url,
   eventUrl |-> result.event_url,
   infoHash |-> result.infohash,
   sessionId |-> result.playback_session_id,
   isLive |-> TRUE]

\* The PlaybackSession startPlayback returns for the manifest's response object
PlaybackSession(result) ==
  [playbackUrl |-> result.playback_url,
   statUrl |-> result.stat_url,
   commandUrl |-> result.command_url,
   eventUrl |-> result.event_url,
   infoHash |-> result.infohash,
   sessionId |-> result.playback_session_id,
   isLive |-> (result.is_live = 1)]

\* The part of EngineManager.startPlayback after ensureRunning() resolved:
\* the manifest request for cleanId and the mapping of its response.
startPlaybackFetch(o) ==
  LET r == AxiosGet(o)
      body == IF r.threw THEN r
              ELSE IF "response" \notin DOMAIN r.v.data
                   THEN Throw(JsError("Invalid response from Engine"))
                   ELSE Ret(PlaybackSession(r.v.data.response))
  IN IF ~body.threw THEN body
     ELSE IF body.v.k = "httperr" /\ "error" \in DOMAIN body.v.data
          THEN Throw(JsError(body.v.data.error))
          ELSE body

\* ------------------------------------------------------------- teardown
\* Outcomes of the OS calls made during one stop(): each may fail.
StopSubsteps ==
  [taskkill : {"ok", "fail"},      \* execSync('taskkill /PID .. /T /F')
   enum : {"ok", "fail"},          \* execSync('pgrep -P ..' / 'ps --ppid ..')
   childKill : {"ok", "esrch"},    \* process.kill(childPid, 'SIGKILL')
   exec : {"ok", "throws"},        \* exec('pkill -9 -f ..')
   sweep : {"ok", "fail"},         \* whether the pkill sweep finds and kills
   wine : {"ok", "fail", "timeout"}]  \* execSync('wineserver -k')

OkSubsteps ==
  [taskkill |-> "ok", enum |-> "ok", childKill |-> "ok", exec |-> "ok",
   sweep |-> "ok", wine |-> "ok"]

\* Sequencing of two statements: the second runs only if the first returned.
Then(a, b) == IF a.threw THEN a ELSE b

\* EngineManager.getChildProcesses: enumeration errors yield the pids so far
getChildProcesses(plat, so) ==
  LET body == IF plat \in {"darwin", "linux"} /\ so.enum = "fail"
              THEN Throw(JsError("Command failed: pgrep"))
              ELSE Ret("pids")
  IN IF body.threw THEN Ret("pids") ELSE body

\* process.kill(pid, 'SIGKILL') inside its own try/catch
TryKill(outcome) ==
  LET body == IF outcome = "ok" THEN Ret("void") ELSE Throw(JsError("kill ESRCH"))
  IN IF body.threw THEN Ret("void") ELSE body

\* The try block of killProcessTree; alive = the root process still exists.
\* v.killed tells whether the root process was terminated by the call.
killProcessTreeTry(plat, alive, so) ==
  LET unix == Then(LET inner == Then(getChildProcesses(plat, so), TryKill(so.childKill))
                   IN IF inner.threw THEN Ret("void") ELSE inner,
                   TryKill(IF alive THEN "ok" ELSE "esrch"))
  IN IF plat = "win32"
     THEN IF alive /\ so.taskkill = "ok"
          THEN Ret([killed |-> TRUE])
          ELSE Throw(JsError("Command failed: taskkill"))
     ELSE Then(unix, Ret([killed |-> alive]))

\* a killProcessTree without its outer catch block
killProcessTree_noCatch(plat, alive, so) == killProcessTreeTry(plat, alive, so)

\* EngineManager.killProcessTree
killProcessTree(plat, alive, so) ==
  LET body == killProcessTreeTry(plat, alive, so)
  IN IF body.threw THEN Ret([killed |-> FALSE]) ELSE body

\* EngineManager.cleanupOurWineProcesses
cleanupOurWineProcesses(so) ==
  LET body == IF so.exec = "throws" THEN Throw(JsError("spawn EAGAIN")) ELSE Ret("void")
  IN IF body.threw THEN Ret("void") ELSE body

\* EngineManager.killAceStreamProcesses (fire-and-forget sweep by name)
killAceStreamProcesses(plat, so) ==
  LET execs == IF so.exec = "throws" THEN Throw(JsError("spawn EAGAIN")) ELSE Ret("void")
      body == IF plat = "darwin" THEN Then(execs, cleanupOurWineProcesses(so))
              ELSE IF plat = "linux" THEN execs
              ELSE Ret("void")
  IN IF body.threw THEN Ret("void") ELSE body

\* EngineManager.forceKillWineServer (the -k9 follow-up runs in a timer
\* callback with its own try/catch)
forceKillWineServer(so) ==
  LET body == IF so.wine = "ok" THEN Ret("void")
              ELSE Throw(JsError("Command failed: wineserver -k"))
  IN IF body.threw THEN Ret("void") ELSE body

\* a stop() that kills what the handle refers to but keeps the handle
stopHandle_keepsHandle(plat, handle, so) ==
  LET kt == killProcessTree(plat, handle = "alive", so)
  IN IF handle = "none" THEN Ret([cleared |-> FALSE, killed |-> FALSE, steps |-> <<>>])
     ELSE IF handle = "nopid"
          THEN Ret([cleared |-> FALSE, killed |-> FALSE, steps |-> <<"kill">>])
          ELSE IF kt.threw THEN kt
               ELSE Ret([cleared |-> FALSE, killed |-> kt.v.killed,
                         steps |-> <<"killProcessTree">>])

\* The block `if (this.engineProcess) { ... }` of stop(), as a function of
\* the handle it finds:
\*   handle = "none" (engineProcess is null), "nopid" (a handle without pid),
\*   "alive" / "dead" (a handle with pid whose process exists / is gone).
\* v.cleared: engineProcess was set to null; v.killed: the root was killed;
\* v.steps: the cleanup steps invoked, in order.
stopHandle(plat, handle, so) ==
  LET kt == killProcessTree(plat, handle = "alive", so)
  IN IF handle = "none" THEN Ret([cleared |-> FALSE, killed |-> FALSE, steps |-> <<>>])
     ELSE IF handle = "nopid"
          THEN Ret([cleared |-> TRUE, killed |-> FALSE, steps |-> <<"kill">>])
          ELSE IF kt.threw THEN kt
               ELSE Ret([cleared |-> TRUE, killed |-> kt.v.killed,
                         steps |-> <<"killProcessTree">>])

\* a stop() without the platform sweeps that follow the handle block
stop_noSweep(plat, handle, so) == stopHandle(plat, handle, so)

\* a stop() that runs the sweeps of the platform before the handle block
stop_sweepFirst(plat, handle, so) ==
  LET s1 == stopHandle(plat, handle, so)
      sweeps == (IF plat # "win32" THEN <<"killAceStreamProcesses">> ELSE <<>>)
                \o (IF plat = "darwin" THEN <<"forceKillWineServer">> ELSE <<>>)
  IN IF s1.threw THEN s1 ELSE Ret([s1.v EXCEPT !.steps = sweeps \o @])

\* EngineManager.stop: the handle block, then the sweeps of the platform
stop(plat, handle, so) ==
  LET s1 == stopHandle(plat, handle, so)
      s2 == IF s1.threw \/ plat = "win32" THEN s1
            ELSE LET k == killAceStreamProcesses(plat, so)
                 IN IF k.threw THEN k
                    ELSE Ret([s1.v EXCEPT !.steps = @ \o <<"killAceStreamProcesses">>])
      s3 == IF s2.threw \/ plat # "darwin" THEN s2
            ELSE LET w == forceKillWineServer(so)
                 IN IF w.threw THEN w
                    ELSE Ret([s2.v EXCEPT !.steps = @ \o <<"forceKillWineServer">>])
  IN s3

\* ------------------------------------------- killProcessTree, signal by signal
KtPids == 1..MaxPids
KtRoot == 1          \* the pid handed to killProcessTree
INIT_PID == 0        \* orphans are re-parented to the init process

\* the lines of a pgrep / ps listing : ascending pids
RECURSIVE SortedSeq(_)
SortedSeq(S) ==
  IF S = {} THEN <<>>
  ELSE LET m == CHOOSE x \in S : \A y \in S : x <= y
       IN <<m>> \o SortedSeq(S \ {m})

\* EngineManager.getChildProcesses(parentPid) over the process table
\* (live, pp); the listing command exits non-zero when it matches nothing
\* and for every parent in fails, and the catch block then returns [].
RECURSIVE getChildProcessesRec(_, _, _, _, _)
RECURSIVE pushLines(_, _, _, _, _)
getChildProcessesRec(plat, parentPid, live, pp, fails) ==
  LET lines == SortedSeq({p \in live : pp[p] = parentPid})
      body == IF plat \in {"darwin", "linux"}
              THEN IF lines = <<>> \/ parentPid \in fails
                   THEN Throw(JsError("Command failed"))
                   ELSE Ret(pushLines(plat, lines, live, pp, fails))
              ELSE Ret(<<>>)
  IN IF body.threw THEN <<>> ELSE body.v

\* the loop over the lines : pids.push(pid); pids.push(...getChildProcesses(pid))
pushLines(plat, lines, live, pp, fails) ==
  IF lines = <<>> THEN <<>>
  ELSE <<Head(lines)>> \o getChildProcessesRec(plat, Head(lines), live, pp, fails)
       \o pushLines(plat, Tail(lines), live, pp, fails)

\* a killProcessTree that signals the parent before its descendants
KillOrder_parentFirst(pid, childPids) == <<pid>> \o childPids

\* The order in which killProcessTree signals on macOS / Linux :
\* the loop over childPids, then the parent
KillOrder(pid, childPids) == childPids \o <<pid>>

\* The process table after process p is gone : its children are orphaned
Orphaned(pp, p) == [q \in KtPids |-> IF pp[q] = p THEN INIT_PID ELSE pp[q]]

\* The root and everything below it (what taskkill /T reaches)
RECURSIVE TreeOf(_, _, _)
TreeOf(p, live, pp) ==
  {p} \cup UNION {TreeOf(q, live, pp) : q \in {r \in live : pp[r] = p}}

\* ------------------------------------------------------- IPC entry points
\* The value an ipcMain.handle handler gives back: returned, or rejected.
Reply(v) == [rejected |-> FALSE, v |-> v]
Reject(e) == [rejected |-> TRUE, v |-> e]

InvalidIdReply ==
  Reply([success |-> FALSE,
         error |-> "Invalid content ID format. Expected 40-character hex string."])
InvalidUrlReply == Reply([success |-> FALSE, error |-> "Invalid command URL"])

\* 'engine:start' / 'acestream:play' : try { await op } catch (error)
\* { return {success:false, error: error.message} }
CaughtReply(r, okValue) ==
  IF r.threw THEN Reply([success |-> FALSE, error |-> r.v.message]) ELSE Reply(okValue)

\* handlers without a try/catch: a throw of the operation rejects the call
UncaughtReply(r, okValue) ==
  IF r.threw THEN Reject(r.v) ELSE Reply(okValue)

\* ------------------------------------------------------------------ state
VARIABLES
  platform,       \* process.platform
  engineProcess,  \* EngineManager.engineProcess : a handle or NULL
  isStarting,     \* EngineManager.isStarting
  startPromise,   \* EngineManager.startPromise : NULL or the caller whose
                  \* _doStart() produced the promise
  proc,           \* the ChildProcess objects created by spawn()
  call,           \* the IPC invocations in progress, one slot per caller
  res             \* the replies handed back by the step just taken

engineVars == <<platform, engineProcess, isStarting, startPromise, proc, call, res>>

\* AppContent (renderer): the stats-polling / auto-retry effect
VARIABLES
  currentSession, \* state currentSession (the value set by the last setState)
  retryCount,     \* state retryCount (the value set by the last setState)
  eff,            \* the values the mounted effect and handlers closed over
  fetches,        \* getStats calls in flight, each with its callback's closure
  timers,         \* pending retry timeouts, each with its callback's closure
  attempts,       \* retry callbacks in flight (awaiting stop or play)
  isRetryingRef,  \* isRetryingRef.current
  stats,          \* state stats
  playing,        \* the handlePlay call in flight
  stopping,       \* handleStop is awaiting acestream.stop
  lag             \* callbacks run since a state change not yet rendered

rcVars ==
  <<currentSession, retryCount, eff, fetches, timers, attempts, isRetryingRef,
    stats, playing, stopping, lag>>

\* The process tree below the engine process and one run of killProcessTree
VARIABLES
  alivePids,      \* the pids of the tree that exist
  ppid,           \* ppid[p] : the parent of p (INIT_PID once p is orphaned)
  kt,             \* the position of killProcessTree(pid) between two signals
  sigs            \* every process.kill(p, 'SIGKILL') made so far, in order

ktVars == <<alivePids, ppid, kt, sigs>>

\* The main process' handling of acestream:// URLs
VARIABLES
  appReady,            \* app.whenReady() has resolved
  mainWindow,          \* "null", or the window with its page "loading" / "loaded"
  pendingProtocolUrl,  \* the content id stored for later, or NoUrl
  received,            \* what extractContentIdFromUrl gave for each URL received
  sent                 \* every webContents.send('acestream:open-url', id) so far

puVars == <<appReady, mainWindow, pendingProtocolUrl, received, sent>>

vars == <<engineVars, rcVars, ktVars, puVars>>

\* A ChildProcess is
\*   "unused"  not created yet,
\*   "live"    running, HTTP API not up yet,
\*   "ready"   running and answering on port 6878,
\*   "nopid"   spawn failed asynchronously: no pid, 'error' event pending,
\*   "exited"  the process is gone, 'close' event pending,
\*   "closed"  its 'close' / 'error' event was delivered.
ProcStates == {"unused", "live", "ready", "nopid", "exited", "closed"}

Alive(h) == proc[h] \in {"live", "ready"}
Spawned == {h \in Handles : proc[h] # "unused"}
EngineUp == \E h \in Handles : proc[h] = "ready"

ProbeOutcomes == IF EngineUp THEN ProbeAnswers \cup ProbeFailures ELSE {NetErr, Timeout}

NoOutcome == [k |-> "none"]
NoReply == [chan |-> "none"]
NoReplies == [c \in Callers |-> NoReply]
IdleCall == [chan |-> "none", arg |-> Nil, pc |-> "idle", on |-> NULL]

NewCall(chan, arg, pc) == [chan |-> chan, arg |-> arg, pc |-> pc, on |-> NULL]

\* The reply r of invocation rec, whose last request had outcome o
Answer(rec, o, r) == [chan |-> rec.chan, arg |-> rec.arg, o |-> o, r |-> r]

\* The callers whose invocation is inside _doStart (spawned, polling readiness)
InDoStart == {c \in Callers : call[c].pc \in {"wfe_get", "wfe_sleep"}}
\* The callers whose invocation is inside EngineManager.start()
InStart == {c \in Callers : call[c].pc \in {"start_probe", "join", "wfe_get", "wfe_sleep"}}

EngineInit ==
  /\ platform \in Platforms
  /\ engineProcess = NULL
  /\ isStarting = FALSE
  /\ startPromise = NULL
  /\ proc = [h \in Handles |-> "unused"]
  /\ call = [c \in Callers |-> IdleCall]
  /\ res = NoReplies

\* ---------------------------------------------------- EngineManager.start
\* start() up to its first await, for an invocation record rec:
\* join the pending start, or issue the status probe.
startEnter(rec) ==
  IF startPromise # NULL
  THEN [rec EXCEPT !.pc = "join", !.on = startPromise]
  ELSE [rec EXCEPT !.pc = "start_probe"]

\* What an invocation does once the start() it awaits has settled with r:
\* 'engine:start' replies; startPlayback goes on to the manifest request.
afterStartCall(rec, r) ==
  IF ~r.threw /\ rec.chan = "acestream:play"
  THEN [rec EXCEPT !.pc = "manifest", !.on = NULL]
  ELSE IdleCall

afterStartRes(rec, r) ==
  IF ~r.threw /\ rec.chan = "acestream:play"
  THEN NoReply
  ELSE Answer(rec, NoOutcome, CaughtReply(r, [success |-> TRUE]))

\* _doStart of caller c settles with r: its finally clears isStarting, the
\* finally of start() clears startPromise, and c and every caller that was
\* handed c's promise continue.
Settle(c, r) ==
  LET waiters == {c} \cup {d \in Callers : call[d].pc = "join" /\ call[d].on = c}
  IN /\ isStarting' = FALSE
     /\ startPromise' = NULL
     /\ call' = [d \in Callers |->
                   IF d \in waiters THEN afterStartCall(call[d], r) ELSE call[d]]
     /\ res' = [d \in Callers |->
                   IF d \in waiters THEN afterStartRes(call[d], r) ELSE NoReply]

\* The messages of the errors _doStart and waitForEngine throw
ExeNotFoundMsg == "Engine executable not found: <executable>"
WineMissingMsg ==
  "Wine not installed. Please install Wine Crossover: brew tap gcenx/wine && brew install --cask wine-crossover"
StartupTimeoutMsg == "Engine startup timeout"

FreeHandles == {h \in Handles : proc[h] = "unused"}
NextHandle == CHOOSE h \in FreeHandles : \A g \in FreeHandles : h <= g

\* _doStart up to its first await: the checks, the spawn, the first probe.
\*   exe: fs.existsSync(executable); wine: getWinePath() found a binary;
\*   sp: spawn() "ok", "errEvent" (asynchronous 'error'), "throws".
doStartBegin(c, exe, wine, sp) ==
  IF ~exe
  THEN Settle(c, Throw(JsError(ExeNotFoundMsg)))
       /\ UNCHANGED <<engineProcess, proc>>
  ELSE IF platform = "darwin" /\ ~wine
  THEN Settle(c, Throw(JsError(WineMissingMsg)))
       /\ UNCHANGED <<engineProcess, proc>>
  ELSE IF sp = "throws"
  THEN Settle(c, Throw(JsError("spawn failed")))
       /\ UNCHANGED <<engineProcess, proc>>
  ELSE /\ FreeHandles # {}
       /\ engineProcess' = NextHandle
       /\ proc' = [proc EXCEPT ![NextHandle] = IF sp = "ok" THEN "live" ELSE "nopid"]
       /\ isStarting' = TRUE
       /\ startPromise' = c
       /\ call' = [call EXCEPT ![c].pc = "wfe_get"]
       /\ res' = NoReplies

\* What the environment of one _doStart can be: the executable exists or
\* not, Wine is found or not (read on macOS only), spawn() works or fails.
StartEnvs(plat) ==
  {e \in [exe : BOOLEAN, wine : BOOLEAN, sp : {"ok", "errEvent", "throws"}] :
     /\ ~e.exe => e.wine /\ e.sp = "ok"
     /\ ~e.wine => plat = "darwin" /\ e.sp = "ok"}

\* start(): the status probe answered
StartProbeDone(c) ==
  /\ call[c].pc = "start_probe"
  /\ \E running \in {getStatus(o).v.running : o \in ProbeOutcomes} :
       IF running
       THEN /\ call' = [call EXCEPT ![c] = afterStartCall(call[c], Ret("void"))]
            /\ res' = [NoReplies EXCEPT ![c] = afterStartRes(call[c], Ret("void"))]
            /\ UNCHANGED <<engineProcess, isStarting, startPromise, proc>>
       ELSE \E e \in StartEnvs(platform) : doStartBegin(c, e.exe, e.wine, e.sp)
  /\ UNCHANGED <<platform, rcVars, ktVars, puVars>>

\* waitForEngine: response.data?.result?.version of a GET with outcome o
engineAnswered(o) ==
  LET r == AxiosGet(o)
  IN ~r.threw /\ "result" \in DOMAIN r.v.data /\ "version" \in DOMAIN r.v.data.result

\* waitForEngine: the readiness GET answered
WaitForEngineGet(c) ==
  /\ call[c].pc = "wfe_get"
  /\ \E ready \in {engineAnswered(o) : o \in ProbeOutcomes} :
          IF ready
          THEN Settle(c, Ret("void"))
          ELSE /\ call' = [call EXCEPT ![c].pc = "wfe_sleep"]
               /\ res' = NoReplies
               /\ UNCHANGED <<isStarting, startPromise>>
  /\ UNCHANGED <<platform, engineProcess, proc, rcVars, ktVars, puVars>>

\* waitForEngine: the 500 ms sleep ended; the loop goes on or times out
WaitForEngineSleep(c) ==
  /\ call[c].pc = "wfe_sleep"
  /\ \E timedOut \in BOOLEAN :
       IF timedOut
       THEN Settle(c, Throw(JsError(StartupTimeoutMsg)))
       ELSE /\ call' = [call EXCEPT ![c].pc = "wfe_get"]
            /\ res' = NoReplies
            /\ UNCHANGED <<isStarting, startPromise>>
  /\ UNCHANGED <<platform, engineProcess, proc, rcVars, ktVars, puVars>>

\* ------------------------------------------- ensureRunning / startPlayback
\* waitForStartupComplete: a 100 ms tick; the loop ends when isStarting is
\* false or ENGINE_START_TIMEOUT has elapsed, then getStatus() is issued.
WaitForStartupTick(c) ==
  /\ call[c].pc = "er_wait"
  /\ \E timedOut \in BOOLEAN :
       /\ ~isStarting \/ timedOut
       /\ call' = [call EXCEPT ![c].pc = "er_probe"]
  /\ res' = NoReplies
  /\ UNCHANGED <<platform, engineProcess, isStarting, startPromise, proc, rcVars, ktVars, puVars>>

\* ensureRunning: the status probe answered; running -> startPlayback issues
\* the manifest request, else start() is entered.
EnsureRunningProbe(c) ==
  /\ call[c].pc = "er_probe"
  /\ \E running \in {getStatus(o).v.running : o \in ProbeOutcomes} :
       call' = [call EXCEPT ![c] = IF running
                                   THEN [call[c] EXCEPT !.pc = "manifest"]
                                   ELSE startEnter(call[c])]
  /\ res' = NoReplies
  /\ UNCHANGED <<platform, engineProcess, isStarting, startPromise, proc, rcVars, ktVars, puVars>>

\* startPlayback: the manifest request answered with o; 'acestream:play' replies
ManifestDone(c, o) ==
  /\ call[c].pc = "manifest"
  /\ EngineUp \/ o \in {NetErr, Timeout}
  /\ LET r == startPlaybackFetch(o)
     IN /\ call' = [call EXCEPT ![c] = IdleCall]
        /\ res' = [NoReplies EXCEPT ![c] =
                     Answer(call[c], o,
                            IF r.threw THEN CaughtReply(r, "unused")
                            ELSE CaughtReply(r, [success |-> TRUE, session |-> r.v]))]
  /\ UNCHANGED <<platform, engineProcess, isStarting, startPromise, proc, rcVars, ktVars, puVars>>

\* ------------------------------------------------------------ IPC handlers
\* ipcMain.handle('engine:start')
IpcEngineStart(c) ==
  /\ call[c].pc = "idle"
  /\ call' = [call EXCEPT ![c] = startEnter(NewCall("engine:start", Nil, "idle"))]
  /\ res' = NoReplies
  /\ UNCHANGED <<platform, engineProcess, isStarting, startPromise, proc, rcVars, ktVars, puVars>>

\* ipcMain.handle('engine:status')
IpcEngineStatus(c) ==
  /\ call[c].pc = "idle"
  /\ call' = [call EXCEPT ![c] = NewCall("engine:status", Nil, "status_probe")]
  /\ res' = NoReplies
  /\ UNCHANGED <<platform, engineProcess, isStarting, startPromise, proc, rcVars, ktVars, puVars>>

StatusProbeDone(c) ==
  /\ call[c].pc = "status_probe"
  /\ \E o \in ProbeOutcomes :
       LET r == getStatus(o)
       IN res' = [NoReplies EXCEPT ![c] = Answer(call[c], o, UncaughtReply(r, r.v))]
  /\ call' = [call EXCEPT ![c] = IdleCall]
  /\ UNCHANGED <<platform, engineProcess, isStarting, startPromise, proc, rcVars, ktVars, puVars>>

\* ipcMain.handle('acestream:play')
IpcPlay(c, contentId) ==
  /\ call[c].pc = "idle"
  /\ IF ~isValidContentId(contentId)
     THEN /\ res' = [NoReplies EXCEPT ![c] =
                       Answer(NewCall("acestream:play", contentId, "idle"),
                              NoOutcome, InvalidIdReply)]
          /\ UNCHANGED call
     ELSE /\ call' = [call EXCEPT ![c] =
                        NewCall("acestream:play", contentId,
                                IF isStarting THEN "er_wait" ELSE "er_probe")]
          /\ res' = NoReplies
  /\ UNCHANGED <<platform, engineProcess, isStarting, startPromise, proc, rcVars, ktVars, puVars>>

\* ipcMain.handle('acestream:stats')
IpcStats(c, statUrl) ==
  /\ call[c].pc = "idle"
  /\ IF ~isValidApiUrl(statUrl)
     THEN /\ res' = [NoReplies EXCEPT ![c] =
                       Answer(NewCall("acestream:stats", statUrl, "idle"),
                              NoOutcome, Reply(ErrorStats))]
          /\ UNCHANGED call
     ELSE /\ call' = [call EXCEPT ![c] = NewCall("acestream:stats", statUrl, "stats_get")]
          /\ res' = NoReplies
  /\ UNCHANGED <<platform, engineProcess, isStarting, startPromise, proc, rcVars, ktVars, puVars>>

\* getStreamStats: the GET of statUrl answered with o
StatsDone(c, o) ==
  /\ call[c].pc = "stats_get"
  /\ EngineUp \/ o \in {NetErr, Timeout}
  /\ LET r == getStreamStats(o)
     IN res' = [NoReplies EXCEPT ![c] = Answer(call[c], o, UncaughtReply(r, r.v))]
  /\ call' = [call EXCEPT ![c] = IdleCall]
  /\ UNCHANGED <<platform, engineProcess, isStarting, startPromise, proc, rcVars, ktVars, puVars>>

\* ipcMain.handle('acestream:stop')
IpcStop(c, commandUrl) ==
  /\ call[c].pc = "idle"
  /\ IF ~isValidApiUrl(commandUrl)
     THEN /\ res' = [NoReplies EXCEPT ![c] =
                       Answer(NewCall("acestream:stop", commandUrl, "idle"),
                              NoOutcome, InvalidUrlReply)]
          /\ UNCHANGED call
     ELSE /\ call' = [call EXCEPT ![c] = NewCall("acestream:stop", commandUrl, "stop_get")]
          /\ res' = NoReplies
  /\ UNCHANGED <<platform, engineProcess, isStarting, startPromise, proc, rcVars, ktVars, puVars>>

\* stopPlayback: the GET of commandUrl?method=stop answered with o
StopCmdDone(c, o) ==
  /\ call[c].pc = "stop_get"
  /\ EngineUp \/ o \in {NetErr, Timeout}
  /\ LET r == stopPlayback(o)
     IN res' = [NoReplies EXCEPT ![c] =
                  Answer(call[c], o, UncaughtReply(r, [success |-> TRUE]))]
  /\ call' = [call EXCEPT ![c] = IdleCall]
  /\ UNCHANGED <<platform, engineProcess, isStarting, startPromise, proc, rcVars, ktVars, puVars>>

\* What stop() finds behind engineProcess
HandleState ==
  IF engineProcess = NULL THEN "none"
  ELSE IF proc[engineProcess] = "nopid" THEN "nopid"
  ELSE IF Alive(engineProcess) THEN "alive" ELSE "dead"

\* The OS calls that one stop() makes
SubstepsMade(plat, handle) ==
  (IF handle \in {"alive", "dead"}
   THEN IF plat = "win32" THEN {"taskkill"} ELSE {"enum", "childKill"}
   ELSE {})
  \cup (IF plat # "win32" THEN {"exec", "sweep"} ELSE {})
  \cup (IF plat = "darwin" THEN {"wine"} ELSE {})

\* Every OS call of a stop() fails
AllFail(plat, handle) ==
  CHOOSE so \in StopSubsteps :
    /\ \A f \in DOMAIN so : (so[f] = "ok") = (f \in {"childKill", "sweep"}
                                                \/ f \notin SubstepsMade(plat, handle))
    /\ so.wine \in {"ok", "fail"}

\* The outcome combinations of the OS calls a stop() makes
SubstepChoices(plat, handle) ==
  {so \in StopSubsteps :
     /\ \A f \in DOMAIN so : f \notin SubstepsMade(plat, handle) => so[f] = "ok"
     /\ so.enum = "fail" => so.childKill = "ok"
     /\ so.exec = "throws" => so.sweep = "ok"}

\* ipcMain.handle('engine:stop') : EngineManager.stop() runs synchronously
IpcEngineStop(c, so) ==
  /\ call[c].pc = "idle"
  /\ so \in SubstepChoices(platform, HandleState)
  /\ LET r == stop(platform, HandleState, so)
         swept == ~r.threw /\ platform # "win32" /\ so.exec = "ok" /\ so.sweep = "ok"
     IN /\ engineProcess' = IF ~r.threw /\ r.v.cleared THEN NULL ELSE engineProcess
        /\ proc' = [h \in Handles |->
                      IF Alive(h) /\ (swept \/ (~r.threw /\ r.v.killed /\ h = engineProcess))
                      THEN "exited" ELSE proc[h]]
        /\ res' = [NoReplies EXCEPT ![c] =
                     Answer(NewCall("engine:stop", Nil, "idle"),
                            [k |-> "stop", handle |-> HandleState, so |-> so,
                             steps |-> IF r.threw THEN <<>> ELSE r.v.steps],
                            UncaughtReply(r, [success |-> TRUE]))]
  /\ UNCHANGED <<platform, isStarting, startPromise, call, rcVars, ktVars, puVars>>

\* ------------------------------------------------- engine process events
\* The engine's HTTP API comes up (one process can own port 6878)
ProcReady(h) ==
  /\ proc[h] = "live"
  /\ ~EngineUp
  /\ proc' = [proc EXCEPT ![h] = "ready"]
  /\ res' = NoReplies
  /\ UNCHANGED <<platform, engineProcess, isStarting, startPromise, call, rcVars, ktVars, puVars>>

\* The engine process dies on its own
ProcExit(h) ==
  /\ Alive(h)
  /\ proc' = [proc EXCEPT ![h] = "exited"]
  /\ res' = NoReplies
  /\ UNCHANGED <<platform, engineProcess, isStarting, startPromise, call, rcVars, ktVars, puVars>>

\* engineProcess.on('close') of handle h is delivered
ProcClose(h) ==
  /\ proc[h] = "exited"
  /\ proc' = [proc EXCEPT ![h] = "closed"]
  /\ engineProcess' = NULL
  /\ res' = NoReplies
  /\ UNCHANGED <<platform, isStarting, startPromise, call, rcVars, ktVars, puVars>>

\* engineProcess.on('error') of handle h is delivered
ProcError(h) ==
  /\ proc[h] = "nopid"
  /\ proc' = [proc EXCEPT ![h] = "closed"]
  /\ engineProcess' = NULL
  /\ res' = NoReplies
  /\ UNCHANGED <<platform, isStarting, startPromise, call, rcVars, ktVars, puVars>>


\* ------------------------------------------------- AppContent (renderer)
\* A session object; gen tells apart the objects of successive
\* setCurrentSession calls (the effect compares them by identity).
Gens == 1..MaxSessions

Session(contentId, streamName, g) ==
  [contentId |-> contentId, streamName |-> streamName, gen |-> g]
NoSession == Session("none", "none", 0)
NoPlay == [contentId |-> "none", streamName |-> "none"]
NoStats == [status |-> "none"]

\* What a callback created by one run of the effect closed over
Closure(session, n) == [session |-> session, retryCount |-> n]

UsedGens ==
  {currentSession.gen, eff.session.gen}
    \cup {f.session.gen : f \in fetches}
    \cup {t.session.gen : t \in timers}
    \cup {a.session.gen : a \in attempts}
FreeGens == Gens \ UsedGens
NewGen == CHOOSE g \in FreeGens : \A h \in FreeGens : g <= h

\* The session ids nothing refers to once the retry callback a has returned
\* (its closure is the last reference to the session it was created for)
FreeGensAfter(a) ==
  Gens \ ({currentSession.gen, eff.session.gen}
            \cup {f.session.gen : f \in fetches}
            \cup {t.session.gen : t \in timers}
            \cup {b.session.gen : b \in attempts \ {a}})
NewGenAfter(a) == CHOOSE g \in FreeGensAfter(a) : \A h \in FreeGensAfter(a) : g <= h

\* if (retryTimeoutRef.current) { clearTimeout(...); retryTimeoutRef.current = null }
\* (held marks the timer retryTimeoutRef refers to)
clearRetryTimeout(ts) == {t \in ts : ~t.held}

RcInit ==
  /\ currentSession = NoSession
  /\ retryCount = 0
  /\ eff = Closure(NoSession, 0)
  /\ fetches = {}
  /\ timers = {}
  /\ attempts = {}
  /\ isRetryingRef = FALSE
  /\ stats = NoStats
  /\ playing = NoPlay
  /\ stopping = FALSE
  /\ lag = 0

\* A state change is waiting for React to re-render and re-run the effect.
\* React schedules that work right after the change, so only callbacks
\* already queued on the event loop (at most MaxLag) run before it.
Pending == Closure(currentSession, retryCount) # eff
CanRun == ~Pending \/ lag < MaxLag
Lag == lag' = IF Closure(currentSession', retryCount') = eff' THEN 0
              ELSE IF Pending THEN lag + 1 ELSE 0

Min(a, b) == IF a <= b THEN a ELSE b

\* a schedule clamped one entry too early
retryDelay_clampEarly(n) == RETRY_INTERVALS[Min(n, Len(RETRY_INTERVALS) - 2) + 1]

\* RETRY_INTERVALS[Math.min(retryCount, RETRY_INTERVALS.length - 1)]
retryDelay(n) == RETRY_INTERVALS[Min(n, Len(RETRY_INTERVALS) - 1) + 1]

\* handlePlay up to its await of engine.start / acestream.play
handlePlay(contentId, name) ==
  /\ CanRun
  /\ playing = NoPlay
  /\ playing' = [contentId |-> contentId, streamName |-> name]
  /\ UNCHANGED <<currentSession, retryCount, eff, fetches, timers, attempts,
                 isRetryingRef, stats, stopping, engineVars,
                 ktVars, puVars>>
  /\ Lag

\* handlePlay after acestream.play answered
handlePlayDone(ok) ==
  /\ CanRun
  /\ playing # NoPlay
  /\ IF ok
     THEN /\ FreeGens # {}
          /\ currentSession' = Session(playing.contentId, playing.streamName, NewGen)
     ELSE UNCHANGED currentSession
  /\ playing' = NoPlay
  /\ UNCHANGED <<retryCount, eff, fetches, timers, attempts, isRetryingRef,
                 stats, stopping, engineVars,
                 ktVars, puVars>>
  /\ Lag

\* React re-renders after a state change and re-runs the polling effect
\* (deps currentSession, retryCount): the cleanup of the previous run, then
\* the body with the rendered values.
RunEffect ==
  /\ Closure(currentSession, retryCount) # eff
  /\ eff' = Closure(currentSession, retryCount)
  /\ lag' = 0
  /\ LET cleaned == IF eff.session # NoSession THEN clearRetryTimeout(timers)
                    ELSE timers
     IN IF currentSession = NoSession
        THEN /\ stats' = NoStats
             /\ retryCount' = 0
             /\ timers' = clearRetryTimeout(cleaned)
             /\ isRetryingRef' = FALSE
        ELSE /\ timers' = cleaned
             /\ UNCHANGED <<stats, retryCount, isRetryingRef>>
  /\ UNCHANGED <<currentSession, fetches, attempts, playing, stopping, engineVars,
                 ktVars, puVars>>

\* The 2 s interval of the mounted effect fires: getStats is invoked
IntervalTick ==
  /\ CanRun
  /\ eff.session # NoSession
  /\ eff \notin fetches
  /\ Cardinality(fetches) < MaxFetches
  /\ fetches' = fetches \cup {eff}
  /\ UNCHANGED <<currentSession, retryCount, eff, timers, attempts,
                 isRetryingRef, stats, playing, stopping, engineVars,
                 ktVars, puVars>>
  /\ Lag

\* a retry condition that also takes a sample without peers for an error
shouldRetry_noPeers(newStats, guard, n) ==
  /\ newStats.status = "error" \/ newStats.peers = 0
  /\ ~guard
  /\ n < MAX_RETRIES

\* newStats.status === 'error' && !isRetryingRef.current && retryCount < MAX_RETRIES
shouldRetry(newStats, guard, n) ==
  /\ newStats.status = "error"
  /\ ~guard
  /\ n < MAX_RETRIES

\* getStats of the interval callback with closure f answered newStats
StatsArrived(f, newStats) ==
  LET retry == shouldRetry(newStats, isRetryingRef, f.retryCount)
  IN /\ CanRun
     /\ f \in fetches
     /\ retry => Cardinality(timers) + Cardinality(attempts) < MaxPending
     /\ fetches' = fetches \ {f}
     /\ stats' = newStats
     /\ isRetryingRef' = (retry \/ isRetryingRef)
     /\ timers' = IF retry
                  THEN {[t EXCEPT !.held = FALSE] : t \in timers}
                         \cup {[session |-> f.session, retryCount |-> f.retryCount,
                                 held |-> TRUE, delay |-> retryDelay(f.retryCount)]}
                  ELSE timers
     /\ retryCount' = IF newStats.status = "dl" /\ newStats.peers > 0 /\ f.retryCount > 0
                      THEN 0 ELSE retryCount
     /\ UNCHANGED <<currentSession, eff, attempts, playing, stopping, engineVars,
                 ktVars, puVars>>
     /\ Lag

\* a retry callback that counts only the restarts that succeeded
attemptEnd_failuresUncounted(result, prev) ==
  [retryCount |-> IF result = "success" THEN prev + 1 ELSE prev,
   isRetrying |-> FALSE]

\* How the retry callback ends, for result "success" (play answered with a
\* session), "failure" (answered without one) or "throws" (stop or play
\* rejected): setRetryCount(prev => prev + 1) in the branch taken, then the
\* finally block
attemptEnd(result, prev) ==
  [retryCount |-> prev + 1, isRetrying |-> FALSE]

\* The retry timeout t fires: its callback invokes acestream.stop
RetryTimerFired(t) ==
  /\ CanRun
  /\ t \in timers
  /\ timers' = timers \ {t}
  /\ attempts' = attempts \cup {[session |-> t.session, pc |-> "stop"]}
  /\ UNCHANGED <<currentSession, retryCount, eff, fetches, isRetryingRef,
                 stats, playing, stopping, engineVars,
                 ktVars, puVars>>
  /\ Lag

\* Retry callback a: acestream.stop answered (or the invoke rejected)
RetryStopDone(a, threw) ==
  /\ CanRun
  /\ a \in attempts
  /\ a.pc = "stop"
  /\ IF threw
     THEN /\ retryCount < RetryCap
          /\ retryCount' = attemptEnd("throws", retryCount).retryCount
          /\ isRetryingRef' = attemptEnd("throws", retryCount).isRetrying
          /\ attempts' = attempts \ {a}
     ELSE /\ attempts' = (attempts \ {a}) \cup {[a EXCEPT !.pc = "play"]}
          /\ UNCHANGED <<retryCount, isRetryingRef>>
  /\ UNCHANGED <<currentSession, eff, fetches, timers, stats, playing,
                 stopping, engineVars,
                 ktVars, puVars>>
  /\ Lag

\* Retry callback a: acestream.play answered with a session ("success"),
\* answered without one ("failure"), or the invoke rejected ("throws")
RetryPlayDone(a, result) ==
  /\ CanRun
  /\ a \in attempts
  /\ a.pc = "play"
  /\ retryCount < RetryCap
  /\ IF result = "success"
     THEN /\ FreeGensAfter(a) # {}
          /\ currentSession' = Session(a.session.contentId, a.session.streamName,
                                       NewGenAfter(a))
     ELSE UNCHANGED currentSession
  /\ retryCount' = attemptEnd(result, retryCount).retryCount
  /\ isRetryingRef' = attemptEnd(result, retryCount).isRetrying
  /\ attempts' = attempts \ {a}
  /\ UNCHANGED <<eff, fetches, timers, stats, playing, stopping, engineVars,
                 ktVars, puVars>>
  /\ Lag

\* handleStop up to its await of acestream.stop (the handler closed over
\* the rendered currentSession)
handleStop ==
  /\ CanRun
  /\ eff.session # NoSession
  /\ ~stopping
  /\ timers' = clearRetryTimeout(timers)
  /\ isRetryingRef' = FALSE
  /\ retryCount' = 0
  /\ stopping' = TRUE
  /\ UNCHANGED <<currentSession, eff, fetches, attempts, stats, playing,
                 engineVars, ktVars, puVars>>
  /\ Lag

\* handleStop after acestream.stop answered
handleStopDone ==
  /\ CanRun
  /\ stopping
  /\ currentSession' = NoSession
  /\ stats' = NoStats
  /\ stopping' = FALSE
  /\ UNCHANGED <<retryCount, eff, fetches, timers, attempts, isRetryingRef,
                 playing, engineVars, ktVars, puVars>>
  /\ Lag

PlayResults == {"success", "failure", "throws"}

\* ---------------------------------------------- killProcessTree as steps
\* No call of killProcessTree has been made; the tree is a lone root
KtIdle ==
  /\ alivePids = {KtRoot}
  /\ ppid = [p \in KtPids |-> INIT_PID]
  /\ kt = [pc |-> "idle", call |-> 0, childPids |-> <<>>, todo |-> <<>>, threw |-> FALSE]
  /\ sigs = <<>>

\* The trees of at most two levels below the root : a child's parent is the
\* root, a grandchild's parent is a child
Trees ==
  {pp \in [KtPids -> KtPids \cup {INIT_PID}] :
     /\ pp[KtRoot] = INIT_PID
     /\ \A p \in KtPids \ {KtRoot} :
          /\ pp[p] \in KtPids /\ pp[p] < p
          /\ pp[p] = KtRoot \/ pp[pp[p]] = KtRoot}

KtInit ==
  /\ ppid \in Trees
  /\ alivePids \in {S \in SUBSET KtPids :
                      KtRoot \in S /\ \A p \in S \ {KtRoot} : ppid[p] \in S}
  /\ \A p \in KtPids \ alivePids : ppid[p] = KtRoot
  /\ kt = [pc |-> "idle", call |-> 0, childPids |-> <<>>, todo |-> <<>>, threw |-> FALSE]
  /\ sigs = <<>>

\* killProcessTree(pid) on macOS / Linux up to the first process.kill :
\* the descendants are enumerated
KtEnumerate(fails) ==
  /\ kt.pc = "idle"
  /\ kt.call < MaxKillCalls
  /\ platform # "win32"
  /\ LET childPids == getChildProcessesRec(platform, KtRoot, alivePids, ppid, fails)
     IN kt' = [pc |-> "kill", call |-> kt.call + 1, childPids |-> childPids,
               todo |-> KillOrder(KtRoot, childPids), threw |-> FALSE]
  /\ UNCHANGED <<alivePids, ppid, sigs, engineVars, rcVars, puVars>>

\* one process.kill(p, 'SIGKILL') in its try / catch; the call returns
\* after the last one
KtKill ==
  /\ kt.pc = "kill"
  /\ LET p == Head(kt.todo)
         r == TryKill(IF p \in alivePids THEN "ok" ELSE "esrch")
     IN /\ sigs' = Append(sigs, [call |-> kt.call, pid |-> p])
        /\ alivePids' = alivePids \ {p}
        /\ ppid' = IF p \in alivePids THEN Orphaned(ppid, p) ELSE ppid
        /\ kt' = [kt EXCEPT !.todo = Tail(@),
                            !.threw = @ \/ r.threw,
                            !.pc = IF Tail(kt.todo) = <<>> THEN "idle" ELSE "kill"]
  /\ UNCHANGED <<engineVars, rcVars, puVars>>

\* killProcessTree(pid) on Windows : taskkill /T /F inside the outer try
KtTaskkill(outcome) ==
  /\ kt.pc = "idle"
  /\ kt.call < MaxKillCalls
  /\ platform = "win32"
  /\ LET ok == outcome = "ok" /\ KtRoot \in alivePids
         body == IF ok THEN Ret("void") ELSE Throw(JsError("Command failed: taskkill"))
         gone == IF ok THEN TreeOf(KtRoot, alivePids, ppid) ELSE {}
     IN /\ alivePids' = alivePids \ gone
        /\ ppid' = [q \in KtPids |-> IF ppid[q] \in gone /\ q \notin gone
                                     THEN INIT_PID ELSE ppid[q]]
        /\ kt' = [pc |-> "idle", call |-> kt.call + 1, childPids |-> <<>>,
                  todo |-> <<>>, threw |-> (IF body.threw THEN FALSE ELSE body.threw)]
  /\ UNCHANGED <<sigs, engineVars, rcVars, puVars>>

\* a process of the tree exits on its own
KtProcExit(p) ==
  /\ p \in alivePids
  /\ alivePids' = alivePids \ {p}
  /\ ppid' = Orphaned(ppid, p)
  /\ UNCHANGED <<kt, sigs, engineVars, rcVars, puVars>>

\* ------------------------------------------------ acestream:// URL handling
NoUrl == NotStr("null")

\* s.replace(/[/?#].*$/, '') : cuts s at its first '/', '?' or '#'
StripTail(s) ==
  LET hits == {i \in 1..Len(s) : s[i] \in {"/", "?", "#"}}
  IN IF hits = {} THEN s
     ELSE SubSeq(s, 1, (CHOOSE i \in hits : \A j \in hits : i <= j) - 1)

\* extractContentIdFromUrl(url) : the content id of the URL, or null
extractContentIdFromUrl(url) ==
  IF url = <<>> \/ ~StartsWith(url, ACESTREAM_PREFIX)
  THEN NoUrl
  ELSE LET contentId == StripTail(ReplaceFirst(url, ACESTREAM_PREFIX))
       IN IF CONTENT_ID_REGEX_test(contentId) THEN Str(contentId) ELSE NoUrl

OtherId == [i \in 1..CONTENT_ID_LEN |-> IF i % 2 = 0 THEN "F" ELSE "9"]

\* The URLs the operating system hands over
ProtocolUrls ==
  { ACESTREAM_PREFIX \o GoodId,
    ACESTREAM_PREFIX \o OtherId \o <<"?", "x">>,
    ACESTREAM_PREFIX \o Rep("a", CONTENT_ID_LEN - 1),
    <<"h","t","t","p",":","/","/","e","v","i","l","/">> \o GoodId }

\* Command lines (process.argv, or the commandLine of a second instance)
ExePath == <<"a","c","e","s">>
CommandLines == {<<ExePath>>} \cup {<<ExePath, u>> : u \in ProtocolUrls}

\* commandLine.find(arg => arg.startsWith('acestream://')) : the argument or <<>>
FindProtocolArg(cmd) ==
  LET hits == {i \in DOMAIN cmd : StartsWith(cmd[i], ACESTREAM_PREFIX)}
  IN IF hits = {} THEN <<>> ELSE cmd[CHOOSE i \in hits : \A j \in hits : i <= j]

PuInit ==
  /\ appReady = FALSE
  /\ mainWindow = "null"
  /\ pendingProtocolUrl = NoUrl
  /\ received = <<>>
  /\ sent = <<>>

\* handleProtocolUrl(url) with mainWindow being win: an invalid URL is
\* dropped, a valid one is sent if the window exists and stored otherwise
handleProtocolUrl(url, win) ==
  LET contentId == extractContentIdFromUrl(url)
  IN /\ received' = Append(received, contentId)
     /\ IF contentId = NoUrl
        THEN UNCHANGED <<pendingProtocolUrl, sent>>
        ELSE IF win # "null"
             THEN /\ sent' = Append(sent, [contentId |-> contentId,
                                           loaded |-> win = "loaded"])
                  /\ UNCHANGED pendingProtocolUrl
             ELSE /\ pendingProtocolUrl' = contentId
                  /\ UNCHANGED sent

\* app.on('open-url') (macOS)
OpenUrl(url) ==
  /\ platform = "darwin"
  /\ Len(received) < MaxUrls
  /\ handleProtocolUrl(url, mainWindow)
  /\ UNCHANGED <<appReady, mainWindow, engineVars, rcVars, ktVars>>

\* app.on('second-instance') : the URL of the command line, if it has one
SecondInstance(commandLine) ==
  /\ Len(received) < MaxUrls
  /\ LET url == FindProtocolArg(commandLine)
     IN IF url # <<>> THEN handleProtocolUrl(url, mainWindow)
        ELSE UNCHANGED <<pendingProtocolUrl, received, sent>>
  /\ UNCHANGED <<appReady, mainWindow, engineVars, rcVars, ktVars>>

\* app.whenReady().then(...) : createWindow(), then the URL of process.argv
WhenReady(argv) ==
  /\ ~appReady
  /\ Len(received) < MaxUrls
  /\ appReady' = TRUE
  /\ mainWindow' = "loading"
  /\ LET protocolUrl == FindProtocolArg(argv)
     IN IF protocolUrl # <<>> THEN handleProtocolUrl(protocolUrl, "loading")
        ELSE UNCHANGED <<pendingProtocolUrl, received, sent>>
  /\ UNCHANGED <<engineVars, rcVars, ktVars>>

\* webContents 'did-finish-load' : the stored content id is sent
DidFinishLoad ==
  /\ mainWindow = "loading"
  /\ mainWindow' = "loaded"
  /\ IF pendingProtocolUrl # NoUrl
     THEN /\ sent' = Append(sent, [contentId |-> pendingProtocolUrl, loaded |-> TRUE])
          /\ pendingProtocolUrl' = NoUrl
     ELSE UNCHANGED <<pendingProtocolUrl, sent>>
  /\ UNCHANGED <<appReady, received, engineVars, rcVars, ktVars>>

\* mainWindow 'closed' on macOS, where the application stays alive
WindowClosed ==
  /\ platform = "darwin"
  /\ mainWindow # "null"
  /\ mainWindow' = "null"
  /\ UNCHANGED <<appReady, pendingProtocolUrl, received, sent, engineVars, rcVars, ktVars>>

\* app.on('activate') with no window open : createWindow()
Activate ==
  /\ appReady
  /\ platform = "darwin"
  /\ mainWindow = "null"
  /\ mainWindow' = "loading"
  /\ UNCHANGED <<appReady, pendingProtocolUrl, received, sent, engineVars, rcVars, ktVars>>

\* SpecProtocol: the application starts and receives up to MaxUrls URLs
NextProtocol ==
  \/ \E url \in ProtocolUrls : OpenUrl(url)
  \/ \E commandLine \in CommandLines : SecondInstance(commandLine)
  \/ \E argv \in CommandLines : WhenReady(argv)
  \/ DidFinishLoad
  \/ WindowClosed
  \/ Activate

\* ---------------------------------------------------------- specifications
InitKill == EngineInit /\ RcInit /\ KtInit /\ PuInit

NextKill ==
  \/ \E fails \in {{}} \cup {{p} : p \in KtPids} : KtEnumerate(fails)
  \/ KtKill
  \/ \E outcome \in {"ok", "fail"} : KtTaskkill(outcome)
  \/ \E p \in KtPids : KtProcExit(p)

\* SpecKill: killProcessTree(pid) called up to MaxKillCalls times on every
\* tree of two levels, while processes may exit on their own
SpecKill == InitKill /\ [][NextKill]_vars

Init == EngineInit /\ RcInit /\ KtIdle /\ PuInit

SpecProtocol == Init /\ [][NextProtocol]_vars

ProcEvent ==
  \/ \E h \in Handles : ProcReady(h)
  \/ \E h \in Handles : ProcExit(h)
  \/ \E h \in Handles : ProcClose(h)
  \/ \E h \in Handles : ProcError(h)

\* Spec: the engine lifecycle under concurrent start / play / stop calls
Next ==
  \/ \E c \in Callers : IpcEngineStart(c)
  \/ \E c \in Callers :
       \E so \in {OkSubsteps, AllFail(platform, HandleState)} : IpcEngineStop(c, so)
  \/ \E c \in Callers : IpcPlay(c, Str(GoodId))
  \/ \E c \in Callers : StartProbeDone(c)
  \/ \E c \in Callers : WaitForEngineGet(c)
  \/ \E c \in Callers : WaitForEngineSleep(c)
  \/ \E c \in Callers : WaitForStartupTick(c)
  \/ \E c \in Callers : EnsureRunningProbe(c)
  \/ \E c \in Callers : \E o \in {HttpOk(ManifestLive), NetErr} : ManifestDone(c, o)
  \/ ProcEvent

Spec == Init /\ [][Next]_vars

\* SpecIpc: every entry point with every input, one invocation at a time
\* (an invocation begins when none is in progress; the first slot carries it)
AllIdle == \A c \in Callers : call[c].pc = "idle"
FirstCaller == CHOOSE c \in Callers : \A d \in Callers : c <= d

NextIpc ==
  \/ AllIdle /\ IpcEngineStart(FirstCaller)
  \/ AllIdle /\ \E so \in StopSubsteps : IpcEngineStop(FirstCaller, so)
  \/ AllIdle /\ IpcEngineStatus(FirstCaller)
  \/ AllIdle /\ \E id \in ContentIdInputs : IpcPlay(FirstCaller, id)
  \/ AllIdle /\ \E u \in UrlInputs : IpcStats(FirstCaller, u)
  \/ AllIdle /\ \E u \in UrlInputs : IpcStop(FirstCaller, u)
  \/ \E c \in Callers : StartProbeDone(c)
  \/ \E c \in Callers : WaitForEngineGet(c)
  \/ \E c \in Callers : WaitForEngineSleep(c)
  \/ \E c \in Callers : EnsureRunningProbe(c)
  \/ \E c \in Callers : \E o \in ManifestOutcomes : ManifestDone(c, o)
  \/ \E c \in Callers : StatusProbeDone(c)
  \/ \E c \in Callers : \E o \in StatsOutcomes : StatsDone(c, o)
  \/ \E c \in Callers : \E o \in StopCmdOutcomes : StopCmdDone(c, o)
  \/ ProcEvent

SpecIpc == Init /\ [][NextIpc]_vars

\* SpecRetry: one stream is played, every stats sample is the error-stats
\* object, and the user does nothing more
NextRetry ==
  \/ currentSession = NoSession /\ eff.session = NoSession /\ handlePlay("idA", "n1")
  \/ \E ok \in BOOLEAN : handlePlayDone(ok)
  \/ RunEffect
  \/ IntervalTick
  \/ \E f \in fetches : StatsArrived(f, ErrorStats)
  \/ \E t \in timers : RetryTimerFired(t)
  \/ \E a \in attempts : \E threw \in BOOLEAN : RetryStopDone(a, threw)
  \/ \E a \in attempts : \E r \in PlayResults : RetryPlayDone(a, r)

SpecRetry == Init /\ [][NextRetry]_vars

\* The StreamStats objects getStreamStats can hand to the renderer
Samples == {getStreamStats(o).v : o \in StatsOutcomes}

\* SpecRecover: one stream is played and polled with every kind of sample;
\* the user does nothing more
NextRecover ==
  \/ currentSession = NoSession /\ eff.session = NoSession /\ handlePlay("idA", "n1")
  \/ \E ok \in BOOLEAN : handlePlayDone(ok)
  \/ RunEffect
  \/ IntervalTick
  \/ \E f \in fetches : \E newStats \in Samples : StatsArrived(f, newStats)
  \/ \E t \in timers : RetryTimerFired(t)
  \/ \E a \in attempts : \E threw \in BOOLEAN : RetryStopDone(a, threw)
  \/ \E a \in attempts : \E r \in PlayResults : RetryPlayDone(a, r)

SpecRecover == Init /\ [][NextRecover]_vars

\* SpecSearch: one stream is played and never recovers: it is polled with
\* every kind of sample but the healthy one ('dl' with peers)
Unhealthy == {st \in Samples : ~(st.status = "dl" /\ st.peers > 0)}

NextSearch ==
  \/ currentSession = NoSession /\ eff.session = NoSession /\ handlePlay("idA", "n1")
  \/ \E ok \in BOOLEAN : handlePlayDone(ok)
  \/ RunEffect
  \/ IntervalTick
  \/ \E f \in fetches : \E newStats \in Unhealthy : StatsArrived(f, newStats)
  \/ \E t \in timers : RetryTimerFired(t)
  \/ \E a \in attempts : \E threw \in BOOLEAN : RetryStopDone(a, threw)
  \/ \E a \in attempts : \E r \in PlayResults : RetryPlayDone(a, r)

SpecSearch == Init /\ [][NextSearch]_vars

\* ipcMain.handle('acestream:stop') as one function of the URL it is given
\* and of the outcome of stopPlayback's GET
acestreamStop(commandUrl, o) ==
  IF ~isValidApiUrl(commandUrl)
  THEN InvalidUrlReply
  ELSE UncaughtReply(stopPlayback(o), [success |-> TRUE])

\* What the renderer's acestream.stop can be answered with
StopReplies == {acestreamStop(u, o) : u \in UrlInputs, o \in StopCmdOutcomes}

\* a retry callback that restarts only after a stop that reported success
retryAfterStop_checked(reply) ==
  IF reply.rejected \/ ~reply.v.success THEN "catch" ELSE "play"

\* The retry callback after `await acestream.stop(...)`: a rejection goes to
\* the catch block, any answer (its value is not read) to acestream.play
retryAfterStop(reply) ==
  IF reply.rejected THEN "catch" ELSE "play"

\* SpecAttempt: SpecRetry with the retry callback's stop request answered by
\* the 'acestream:stop' handler
NextAttempt ==
  \/ currentSession = NoSession /\ eff.session = NoSession /\ handlePlay("idA", "n1")
  \/ \E ok \in BOOLEAN : handlePlayDone(ok)
  \/ RunEffect
  \/ IntervalTick
  \/ \E f \in fetches : StatsArrived(f, ErrorStats)
  \/ \E t \in timers : RetryTimerFired(t)
  \/ \E a \in attempts : \E reply \in StopReplies :
       RetryStopDone(a, retryAfterStop(reply) = "catch")
  \/ \E a \in attempts : \E r \in PlayResults : RetryPlayDone(a, r)

SpecAttempt == Init /\ [][NextAttempt]_vars

\* SpecReplace: every sample is the error-stats object and the user may play
\* a stream at any time, also while one is active
NextReplace ==
  \/ \E contentId \in {"idA", "idB"} : handlePlay(contentId, "n1")
  \/ \E ok \in BOOLEAN : handlePlayDone(ok)
  \/ RunEffect
  \/ IntervalTick
  \/ \E f \in fetches : StatsArrived(f, ErrorStats)
  \/ \E t \in timers : RetryTimerFired(t)
  \/ \E a \in attempts : \E threw \in BOOLEAN : RetryStopDone(a, threw)
  \/ \E a \in attempts : \E r \in PlayResults : RetryPlayDone(a, r)

SpecReplace == Init /\ [][NextReplace]_vars

\* SpecStop: one stream is played, every sample is the error-stats object,
\* and the user may stop the stream and play it again
NextStop ==
  \/ currentSession = NoSession /\ eff.session = NoSession /\ handlePlay("idA", "n1")
  \/ \E ok \in BOOLEAN : handlePlayDone(ok)
  \/ handleStop
  \/ handleStopDone
  \/ RunEffect
  \/ IntervalTick
  \/ \E f \in fetches : StatsArrived(f, ErrorStats)
  \/ \E t \in timers : RetryTimerFired(t)
  \/ \E a \in attempts : \E threw \in BOOLEAN : RetryStopDone(a, threw)
  \/ \E a \in attempts : \E r \in PlayResults : RetryPlayDone(a, r)

SpecStop == Init /\ [][NextStop]_vars

\* SpecRecoverFair: SpecRecover on an event loop that keeps running: React
\* re-renders after a state change, the 2 s interval keeps firing, every
\* request is answered, a pending timer fires, an awaited call returns
FairRecover ==
  /\ WF_vars(RunEffect)
  /\ WF_vars(IntervalTick)
  /\ WF_vars(\E f \in fetches : \E newStats \in Samples : StatsArrived(f, newStats))
  /\ WF_vars(\E t \in timers : RetryTimerFired(t))
  /\ WF_vars(\E a \in attempts : \E threw \in BOOLEAN : RetryStopDone(a, threw))
  /\ WF_vars(\E a \in attempts : \E r \in PlayResults : RetryPlayDone(a, r))
  /\ WF_vars(\E ok \in BOOLEAN : handlePlayDone(ok))

SpecRecoverFair == SpecRecover /\ FairRecover

TypeOK ==
  /\ platform \in Platforms
  /\ engineProcess \in Handles \cup {NULL}
  /\ isStarting \in BOOLEAN
  /\ startPromise \in Callers \cup {NULL}
  /\ proc \in [Handles -> ProcStates]
  /\ retryCount \in 0..RetryCap
  /\ isRetryingRef \in BOOLEAN
  /\ Cardinality(fetches) <= MaxFetches
  /\ Cardinality(timers) + Cardinality(attempts) <= MaxPending
  /\ Cardinality({t \in timers : t.held}) <= 1
  /\ lag \in 0..MaxLag
  /\ stopping \in BOOLEAN
  /\ alivePids \subseteq KtPids
  /\ ppid \in [KtPids -> KtPids \cup {INIT_PID}]
  /\ kt.pc \in {"idle", "kill"} /\ kt.call \in 0..MaxKillCalls /\ kt.threw \in BOOLEAN
  /\ \A i \in DOMAIN sigs : sigs[i].pid \in KtPids /\ sigs[i].call \in 1..MaxKillCalls
  /\ appReady \in BOOLEAN
  /\ mainWindow \in {"null", "loading", "loaded"}
  /\ Len(received) <= MaxUrls /\ Len(sent) <= MaxUrls

\* ------------------------------------------------------------------ claims
LiveProcs == {h \in Handles : Alive(h)}

\* The start attempts some caller awaits: a _doStart in flight, or the
\* promise a joining caller was handed
AttemptsAwaited ==
  InDoStart \cup {call[c].on : c \in {d \in Callers : call[d].pc = "join"}}

\* C1: concurrent start() calls are coalesced: no engine process is spawned
\* while the _doStart of another caller is in flight, and all callers inside
\* start() await one and the same attempt (hence one outcome).
C1_ConcurrentStartsCoalesce ==
  [][/\ Spawned' # Spawned => InDoStart = {}
     /\ Cardinality(AttemptsAwaited') <= 1]_vars

\* C2: in every reachable state at most one live engine process exists and
\* at most one _doStart is in flight.
C2_SingleHandleSingleStart ==
  /\ Cardinality(LiveProcs) <= 1
  /\ Cardinality(InDoStart) <= 1

\* C3: while every stats sample is an error and the user does nothing, the
\* retry counter never passes MAX_RETRIES, and once it is MAX_RETRIES no
\* further stop/play attempt is in flight.
C3_AtMostFiveRetries ==
  /\ retryCount <= MAX_RETRIES
  /\ retryCount >= MAX_RETRIES => attempts = {}

\* The claims' own reading of the two input formats
IsHex40(v) ==
  /\ v.t = "string"
  /\ Len(v.s) = 40
  /\ \A i \in 1..Len(v.s) : v.s[i] \in HexChars

HasLocalOrigin(v) ==
  /\ v.t = "string"
  /\ Len(v.s) >= Len(ALLOWED_API_HOST)
  /\ \A i \in 1..Len(ALLOWED_API_HOST) : v.s[i] = ALLOWED_API_HOST[i]

\* C4: 'acestream:play' with a contentId that is not a 40-digit hex string
\* replies {success:false, error} in the invoking step, which changes nothing
\* of the engine manager and starts no request: no invocation with such an id
\* is ever probing, spawning or fetching a manifest.
C4_InvalidIdRejected ==
  [][\A c \in Callers :
       /\ call'[c].chan = "acestream:play" => IsHex40(call'[c].arg)
       /\ (res'[c].chan = "acestream:play" /\ ~IsHex40(res'[c].arg)) =>
            /\ ~res'[c].r.rejected
            /\ res'[c].r.v.success = FALSE
            /\ "error" \in DOMAIN res'[c].r.v
            /\ res'[c].o = NoOutcome
            /\ UNCHANGED <<engineProcess, isStarting, startPromise, proc, call>>]_vars

\* a 40-character id whose last character is not a hex digit was turned away
C4_Witness ==
  \E c \in Callers :
    /\ res[c].chan = "acestream:play"
    /\ res[c].arg.t = "string"
    /\ Len(res[c].arg.s) = 40
    /\ res[c].arg.s[40] = "g"
    /\ res[c].r = InvalidIdReply

\* C5: 'acestream:stats' / 'acestream:stop' with a URL that does not start
\* with http://127.0.0.1:6878/ make no HTTP request: stats replies the
\* error-stats object, stop replies {success:false, error}, in the invoking
\* step, and no request for such a URL is ever in flight.
C5_ForeignUrlRejected ==
  [][\A c \in Callers :
       /\ call'[c].chan \in {"acestream:stats", "acestream:stop"}
            => HasLocalOrigin(call'[c].arg)
       /\ (res'[c].chan \in {"acestream:stats", "acestream:stop"}
           /\ ~HasLocalOrigin(res'[c].arg)) =>
            /\ ~res'[c].r.rejected
            /\ res'[c].o = NoOutcome
            /\ res'[c].chan = "acestream:stats" => res'[c].r.v = ErrorStats
            /\ res'[c].chan = "acestream:stop" =>
                 (res'[c].r.v.success = FALSE /\ "error" \in DOMAIN res'[c].r.v)
            /\ UNCHANGED <<engineProcess, isStarting, startPromise, proc, call>>]_vars

\* a URL on another port sharing the first 21 characters was turned away
C5_Witness ==
  \E c \in Callers :
    /\ res[c].chan = "acestream:stats"
    /\ res[c].arg.t = "string"
    /\ Len(res[c].arg.s) > Len(ALLOWED_API_HOST)
    /\ SubSeq(res[c].arg.s, 1, 21) = SubSeq(ALLOWED_API_HOST, 1, 21)
    /\ res[c].arg.s[22] = "0"
    /\ res[c].r = Reply(ErrorStats)

\* The outcomes of a stats request that are failures of the request
StatsRequestFailed(o) == o.k \in {"neterr", "timeout", "httperr"}
StatsBodyMalformed(o) == o.k = "ok" /\ "response" \notin DOMAIN o.data

UnknownStats ==
  [status |-> "unknown", peers |-> 0, speedDown |-> 0, speedUp |-> 0,
   downloaded |-> 0, uploaded |-> 0, isLive |-> FALSE]

C7_StatusNeverThrows ==
  \A c \in Callers :
    res[c].chan = "engine:status" =>
      /\ ~res[c].r.rejected
      /\ (res[c].o.k # "ok" \/ "result" \notin DOMAIN res[c].o.data)
           => res[c].r.v = [running |-> FALSE]
      /\ res[c].r.v.running => (res[c].o.k = "ok" /\ "result" \in DOMAIN res[c].o.data)

\* the engine answered the probe with a payload that has no result object
C7_Witness ==
  \E c \in Callers :
    /\ res[c].chan = "engine:status"
    /\ res[c].o = HttpOk(NoResultData)
    /\ res[c].r = Reply([running |-> FALSE])

\* C8: whenever start() fails, the rejection carries a descriptive error and,
\* once it is delivered, engineProcess is null and isStarting is false.
C8_FailedStartClearsHandle ==
  \A c \in Callers :
    (res[c].chan = "engine:start" /\ ~res[c].r.v.success) =>
      /\ res[c].r.v.error \in {ExeNotFoundMsg, WineMissingMsg, "spawn failed",
                               StartupTimeoutMsg}
      /\ engineProcess = NULL
      /\ isStarting = FALSE

\* C9: the six entry points never reject: every failure of the underlying
\* operation comes back as a value of the entry point's reply type.
C9_EntryPointsNeverReject ==
  \A c \in Callers :
    res[c].chan # "none" =>
      /\ ~res[c].r.rejected
      /\ res[c].chan \in {"engine:start", "acestream:play"} =>
           (res[c].r.v.success \/ "error" \in DOMAIN res[c].r.v)
      /\ res[c].chan \in {"engine:stop"} => res[c].r.v = [success |-> TRUE]
      /\ res[c].chan = "engine:status" => res[c].r.v.running \in BOOLEAN
      /\ res[c].chan = "acestream:stats" => "status" \in DOMAIN res[c].r.v
      /\ (res[c].chan = "acestream:stop" /\ res[c].o # NoOutcome)
           => res[c].r.v = [success |-> TRUE]

\* a stop command that failed on the network still replied {success:true}
C9_Witness ==
  \E c \in Callers :
    /\ res[c].chan = "acestream:stop"
    /\ res[c].o = NetErr
    /\ res[c].r = Reply([success |-> TRUE])

\* C10: stop(), killProcessTree() and forceKillWineServer() never propagate
\* an error, whatever combination of sub-steps fails, and engineProcess is
\* null after stop().
C10_CleanupNeverThrows ==
  \A c \in Callers :
    res[c].chan = "engine:stop" =>
      /\ ~res[c].r.rejected
      /\ engineProcess = NULL
      /\ \A so \in StopSubsteps :
           /\ ~forceKillWineServer(so).threw
           /\ \A alive \in BOOLEAN : ~killProcessTree(platform, alive, so).threw
           /\ \A handle \in {"none", "nopid", "alive", "dead"} :
                ~stop(platform, handle, so).threw

\* a stop() whose handle was already dead, whose child enumeration failed
\* and whose wineserver command timed out
C10_Witness ==
  \E c \in Callers :
    /\ res[c].chan = "engine:stop"
    /\ platform = "darwin"
    /\ res[c].o.handle = "dead"
    /\ res[c].o.so.enum = "fail"
    /\ res[c].o.so.wine = "timeout"
    /\ res[c].o.so.exec = "throws"
    /\ engineProcess = NULL

\* How many times step x occurs in the sequence of cleanup steps
Count(steps, x) == Cardinality({i \in DOMAIN steps : steps[i] = x})

\* C11: a stop() that finds no handle on a non-Windows platform invokes
\* killAceStreamProcesses exactly once and killProcessTree not at all.
C11_IdleStopSweepsOnce ==
  \A c \in Callers :
    (res[c].chan = "engine:stop" /\ res[c].o.handle = "none" /\ platform # "win32") =>
      /\ Count(res[c].o.steps, "killAceStreamProcesses") = 1
      /\ Count(res[c].o.steps, "killProcessTree") = 0

\* on Linux a stop() with engineProcess null ran the name sweep and nothing else
C11_Witness ==
  \E c \in Callers :
    /\ res[c].chan = "engine:stop"
    /\ res[c].o.handle = "none"
    /\ platform = "linux"
    /\ res[c].o.steps = <<"killAceStreamProcesses">>

\* The positions in sigs at which call n signalled process p
SigAt(n, p) == {i \in DOMAIN sigs : sigs[i] = [call |-> n, pid |-> p]}

\* C12: on macOS / Linux killProcessTree signals every enumerated
\* descendant before it signals the root, and no call of it, the second
\* one on the dead tree included, ends with an error.
C12_DescendantsBeforeRoot ==
  /\ \A i \in SigAt(kt.call, KtRoot) :
       \A k \in DOMAIN kt.childPids :
         \E j \in SigAt(kt.call, kt.childPids[k]) : j < i
  /\ ~kt.threw

\* children 2 and 3 and grandchild 4 (below 2) were signalled before the
\* root, and a second call on the dead tree signalled the root alone
C12_Witness ==
  /\ platform \in {"darwin", "linux"}
  /\ sigs = << [call |-> 1, pid |-> 2], [call |-> 1, pid |-> 4],
               [call |-> 1, pid |-> 3], [call |-> 1, pid |-> KtRoot],
               [call |-> 2, pid |-> KtRoot] >>
  /\ alivePids = {}
  /\ kt.call = 2 /\ kt.pc = "idle" /\ kt.childPids = <<>> /\ ~kt.threw

\* The interval callbacks whose getStats answer is processed by this step
Processed == fetches \ fetches'

\* C13: a sample with status 'dl' and peers > 0 processed for the active
\* session while retryCount > 0 resets retryCount to 0.
C13_RecoveryResetsCounter ==
  [][\A f \in Processed :
       (/\ f.session = currentSession
        /\ stats'.status = "dl" /\ stats'.peers > 0
        /\ retryCount > 0)
       => retryCount' = 0]_vars

\* The "searching for peers" sample: downloading, no peer, no speed
Searching(s) == s.status = "dl" /\ s.peers = 0 /\ s.speedDown = 0

\* C14: processing a 'dl' sample with peers = 0 and speedDown = 0 schedules
\* no retry timer and starts no restart, whatever the reconnect state; only
\* a sample with status 'error' adds a retry timer.
C14_OnlyErrorSchedules ==
  [][\A f \in Processed :
       /\ Searching(stats') => timers' = timers /\ attempts' = attempts
                               /\ isRetryingRef' = isRetryingRef
       /\ stats'.status # "error" => timers' = timers]_vars

\* a searching sample was processed in a state in which an error sample
\* would have scheduled a retry, and nothing is scheduled
C14_Witness ==
  /\ Searching(stats)
  /\ currentSession # NoSession /\ eff.session = currentSession
  /\ retryCount > 0 /\ eff.retryCount = retryCount
  /\ ~isRetryingRef /\ timers = {} /\ attempts = {}

\* The schedule as the claim lists it
ScheduledDelay(n) ==
  CASE n = 0 -> 3000 [] n = 1 -> 5000 [] n = 2 -> 10000 [] n = 3 -> 15000
    [] OTHER -> 30000

\* C15: the retry scheduled by a callback that reads attempt counter n
\* waits RETRY_INTERVALS[min(n, 4)] ms (3000, 5000, 10000, 15000, then 30000
\* for every n >= 4), and the delay never decreases from n to n + 1.
C15_BackoffSchedule ==
  /\ \A t \in timers : t.delay = ScheduledDelay(t.retryCount)
  /\ \A n \in 0..RetryCap :
       /\ retryDelay(n) = ScheduledDelay(n)
       /\ retryDelay(n) <= retryDelay(n + 1)

\* the fifth attempt (counter 4) is scheduled with the last entry, 30 s
C15_Witness ==
  \E t \in timers : t.retryCount = 4 /\ t.delay = 30000 /\ t.held /\ retryCount = 4

\* C16: the session of a successful 'acestream:play' carries the manifest's
\* fields one for one (playback_url, stat_url, command_url, event_url,
\* infohash, playback_session_id) and isLive is true exactly when is_live = 1.
C16_ManifestMappedFieldForField ==
  \A c \in Callers :
    (/\ res[c].chan = "acestream:play"
     /\ res[c].o.k = "ok"
     /\ "response" \in DOMAIN res[c].o.data) =>
      /\ ~res[c].r.rejected
      /\ res[c].r.v.success
      /\ LET m == res[c].o.data.response
             session == res[c].r.v.session
         IN /\ session.playbackUrl = m.playback_url
            /\ session.statUrl = m.stat_url
            /\ session.commandUrl = m.command_url
            /\ session.eventUrl = m.event_url
            /\ session.infoHash = m.infohash
            /\ session.sessionId = m.playback_session_id
            /\ session.isLive = (m.is_live = 1)
            /\ DOMAIN session = {"playbackUrl", "statUrl", "commandUrl", "eventUrl",
                                 "infoHash", "sessionId", "isLive"}

\* a manifest with is_live 0 was answered with a session that is not live
C16_Witness ==
  \E c \in Callers :
    /\ res[c].chan = "acestream:play"
    /\ res[c].o = HttpOk(ManifestVod)
    /\ res[c].r.v.success
    /\ res[c].r.v.session.statUrl = "s2"
    /\ ~res[c].r.v.session.isLive

\* C17: the attempt counter stays within 0..MAX_RETRIES under every
\* interleaving of samples (late ones included), timer firings, restart
\* outcomes, user play and user stop.
C17_CounterWithinCap == retryCount \in 0..MAX_RETRIES

\* C18: while a session is active, isRetryingRef set implies that a retry
\* timer is pending or a restart attempt is in flight (also after the
\* effect's cleanup cancelled a pending timer).
C18_GuardImpliesRetryPending ==
  (currentSession # NoSession /\ isRetryingRef) => (timers # {} \/ attempts # {})

\* C19: while the session stays active, an error sample observed with
\* retryCount < MAX_RETRIES is eventually followed by a restart attempt,
\* unless the error does not persist (a later sample is not an error).
C19_ErrorLeadsToRestart ==
  (currentSession # NoSession /\ stats.status = "error" /\ retryCount < MAX_RETRIES)
    ~> (attempts # {} \/ stats.status # "error" \/ currentSession = NoSession)

\* C20: once the session is null it becomes non-null only when a handlePlay
\* of the user completes, and while it is null no retry callback issues a
\* play request.
C20_NullUntilUserPlay ==
  [][currentSession = NoSession =>
       /\ currentSession' # NoSession => (playing # NoPlay /\ playing' = NoPlay)
       /\ \A a \in attempts' \ attempts : a.pc # "play"]_vars

\* C21: a getStats answer processed after the session of its callback ended
\* (stopped or replaced) changes neither the displayed stats, nor the retry
\* timers, nor retryCount, nor isRetryingRef.
C21_LateSampleUnused ==
  [][\A f \in Processed :
       f.session # currentSession =>
         /\ stats' = stats
         /\ timers' = timers
         /\ retryCount' = retryCount
         /\ isRetryingRef' = isRetryingRef]_vars

\* C22: a spawn never replaces a handle whose process is still running:
\* after it, every running engine process is the one engineProcess refers to.
C22_SpawnKeepsLiveHandle ==
  [][Spawned' # Spawned =>
       /\ engineProcess = NULL \/ ~Alive(engineProcess)
       /\ \A h \in LiveProcs' : engineProcess' = h]_vars

\* The handles whose 'close' or 'error' notification this step delivers
Notified == {h \in Handles : proc[h] # "closed" /\ proc'[h] = "closed"}

\* C23: a 'close' or 'error' notification sets engineProcess to null only
\* when engineProcess refers to the process that produced it.
C23_StaleCloseKeepsHandle ==
  [][\A h \in Notified :
       (engineProcess # NULL /\ engineProcess # h) => engineProcess' = engineProcess]_vars

\* The retry callbacks that end in this step
Ended == {a \in attempts : a \notin attempts' /\ [a EXCEPT !.pc = "play"] \notin attempts'}

\* C24: a retry callback ends with retryCount one higher and isRetryingRef
\* false, whether the restart succeeded, failed or threw.
C24_AttemptCountsOnce ==
  [][Ended # {} => retryCount' = retryCount + 1 /\ ~isRetryingRef']_vars

\* a restart that did not replace the session has just been counted
C24_Witness ==
  /\ currentSession # NoSession /\ eff.session = currentSession
  /\ eff.retryCount = 1 /\ retryCount = 2
  /\ ~isRetryingRef /\ attempts = {}

\* The step is a tear-down of the session: handleStop begins, or the
\* polling effect runs for a null session
TearDown ==
  \/ ~stopping /\ stopping'
  \/ eff' # eff /\ eff'.session = NoSession

\* C25: a tear-down of the session (handleStop, or the effect run for a
\* null session) leaves no retry timer pending, isRetryingRef false and
\* retryCount 0.
C25_TearDownResets ==
  [][TearDown => timers' = {} /\ ~isRetryingRef' /\ retryCount' = 0]_vars

\* C26: when a handlePlay of the user succeeds, also one that replaces an
\* active session, the new session begins with retryCount = 0.
C26_PlayResetsCounter ==
  [][(playing # NoPlay /\ playing' = NoPlay /\ currentSession' # currentSession)
       => retryCount' = 0]_vars

\* C27: at most one restart attempt exists at any time: the pending retry
\* timers and the retry callbacks in flight number at most one together.
C27_OneAttemptAtATime == Cardinality(timers) + Cardinality(attempts) <= 1

\* C28: within one retry attempt the stop request is answered before the
\* start request is issued: an attempt whose stop is answered, whatever the
\* answer, goes on to its start request, and a start request is only ever
\* issued by an attempt that was awaiting its stop in the state before.
C28_StopThenStart ==
  [][/\ \A a \in attempts : (a.pc = "stop" /\ a \notin attempts')
          => [a EXCEPT !.pc = "play"] \in attempts'
     /\ \A a \in attempts' \ attempts : a.pc = "play"
          => /\ [a EXCEPT !.pc = "stop"] \in attempts
             /\ [a EXCEPT !.pc = "stop"] \notin attempts']_vars

\* a retry attempt has had its stop answered and is awaiting its start
C28_Witness ==
  /\ \E a \in attempts : a.pc = "play" /\ a.session = currentSession
  /\ isRetryingRef
  /\ timers = {}

\* The cleanup steps of a stop() that found `handle` on platform plat:
\* the handle block first, then the name sweep, then the wineserver kill
StepsInOrder(plat, handle) ==
  (IF handle \in {"alive", "dead"} THEN <<"killProcessTree">>
   ELSE IF handle = "nopid" THEN <<"kill">> ELSE <<>>)
  \o (IF plat # "win32" THEN <<"killAceStreamProcesses">> ELSE <<>>)
  \o (IF plat = "darwin" THEN <<"forceKillWineServer">> ELSE <<>>)

\* C29: stop() performs, in this order, the kill of the handle's process
\* tree if there is a handle, the name sweep off Windows and the wineserver
\* kill on macOS; the last two run whether or not there was a handle and
\* whether or not the OS calls of the first step succeeded.
C29_StopStepsInOrder ==
  \A c \in Callers :
    res[c].chan = "engine:stop" =>
      res[c].o.steps = StepsInOrder(platform, res[c].o.handle)

\* on macOS a stop() whose handle's process was already gone and whose
\* descendant listing failed still ran the three steps in order
C29_Witness ==
  \E c \in Callers :
    /\ res[c].chan = "engine:stop"
    /\ platform = "darwin"
    /\ res[c].o.handle = "dead"
    /\ res[c].o.so.enum = "fail"
    /\ res[c].o.steps = <<"killProcessTree", "killAceStreamProcesses", "forceKillWineServer">>

\* C30: on macOS / Linux killProcessTree signals bottom-up: when a process
\* is sent SIGKILL, none of the descendants the call enumerated is a live
\* child of it still waiting for its signal.
C30_ChildrenBeforeParent ==
  [][Len(sigs') > Len(sigs) =>
       \A k \in DOMAIN kt'.todo :
         ~(/\ kt'.todo[k] \in alivePids
           /\ ppid[kt'.todo[k]] = sigs'[Len(sigs')].pid)]_vars

\* C31: in every reachable state isStarting is true exactly while a
\* _doStart is in flight, and startPromise is non-null exactly while a
\* _doStart begun by start() has not settled.
C31_FlagsTrackDoStart ==
  /\ isStarting <=> InDoStart # {}
  /\ startPromise # NULL <=> InDoStart # {}

\* The callers whose ensureRunning() is entered / resolves by this step
EnsureEntered ==
  {c \in Callers : call[c].pc = "idle" /\ call'[c].pc \in {"er_wait", "er_probe"}}
EnsureResolved ==
  {c \in Callers : call[c].pc # "manifest" /\ call'[c].pc = "manifest"}

\* C32: an ensureRunning() entered while a _doStart is in flight waits for
\* it before anything else, the wait is followed by the status probe, and
\* ensureRunning() resolves only in a step in which the engine answered a
\* probe, without spawning when that probe was its own status probe.
C32_EnsureRunningWaits ==
  [][/\ \A c \in EnsureEntered : InDoStart # {} => call'[c].pc = "er_wait"
     /\ \A c \in Callers : call[c].pc = "er_wait" => call'[c].pc \in {"er_wait", "er_probe"}
     /\ \A c \in EnsureResolved :
          /\ EngineUp
          /\ call[c].pc = "er_probe" => Spawned' = Spawned]_vars

\* The callers whose start() resolves straight after its status probe
ProbedRunning ==
  {c \in Callers :
     /\ call[c].pc = "start_probe"
     /\ \/ call'[c].pc = "manifest"
        \/ res'[c].chan = "engine:start" /\ res'[c].r.v.success}

\* C33: a start() whose status probe reports running resolves without
\* spawning and leaves engineProcess, isStarting and startPromise as they
\* were; isStarting goes from false to true (Stopped -> Starting) only when
\* no _doStart is in flight.
C33_StartWhenRunningIsNoOp ==
  [][/\ \A c \in ProbedRunning :
          /\ Spawned' = Spawned
          /\ UNCHANGED <<engineProcess, isStarting, startPromise>>
     /\ (~isStarting /\ isStarting') => InDoStart = {}]_vars

\* The retry callbacks whose acestream.play is answered by this step
Restarted == {a \in attempts \ attempts' : a.pc = "play"}

\* C34: a restart that replaces the active session keeps the contentId and
\* the streamName of the session it replaces and takes the URLs of the new
\* play call; any other end of a restart leaves the active session as it was.
C34_RestartKeepsContent ==
  [][\A a \in Restarted :
       currentSession' # currentSession =>
         /\ currentSession'.contentId = currentSession.contentId
         /\ currentSession'.streamName = currentSession.streamName
         /\ currentSession'.gen # currentSession.gen]_vars

\* The callers whose stop() was the step just taken / is this step
Stopped == {c \in Callers : res[c].chan = "engine:stop"}
Stopping == {c \in Callers : res'[c].chan = "engine:stop"}

\* C35: after any stop() engineProcess is null, and a stop() that directly
\* follows another stop() finds no handle, does not call killProcessTree and
\* leaves engineProcess null.
C35_StopIdempotent ==
  [][\A c \in Stopping :
       /\ engineProcess' = NULL
       /\ Stopped # {} =>
            /\ res'[c].o.handle = "none"
            /\ Count(res'[c].o.steps, "killProcessTree") = 0]_vars

\* a stop() found no handle although a process an earlier stop() killed has
\* not delivered its 'close' event yet
C35_Witness ==
  \E c \in Callers :
    /\ res[c].chan = "engine:stop"
    /\ res[c].o.handle = "none"
    /\ engineProcess = NULL
    /\ \E h \in Handles : proc[h] = "exited"

\* The manifest request was answered with an error payload of the engine
EnginePayloadError(o) == o.k \in {"ok", "httperr"} /\ "error" \in DOMAIN o.data

\* C36: a manifest request answered with an error payload of the engine makes
\* 'acestream:play' fail with the engine's own message, a transport error or
\* a timeout makes it fail with the message of that error, and in neither
\* case is a session returned.
C36_EngineErrorSurfaced ==
  \A c \in Callers :
    (res[c].chan = "acestream:play" /\ res[c].o.k # "none") =>
      /\ EnginePayloadError(res[c].o) =>
           res[c].r = Reply([success |-> FALSE, error |-> res[c].o.data.error])
      /\ res[c].o.k \in {"neterr", "timeout"} =>
           res[c].r = Reply([success |-> FALSE, error |-> res[c].o.message])

\* C37: a content id is sent to the renderer only once the window's page
\* has finished loading.
C37_SentOnlyToLoadedPage == \A i \in DOMAIN sent : sent[i].loaded

====
